---- MODULE Spec2Model ----
(***************************************************************************)
(* Model of the curve-fitting helpers of funcs.py: round_sig_fig_uncertainty, *)
(* round_sig_fig, residuals / chi2, fitting / fitting_params_only and       *)
(* find_nearest_index.                                                      *)
(*                                                                          *)
(* Numbers that are rounded are decimal fixed-point: the integer v stands   *)
(* for the real number v * 10^(-Scale).  Numbers of the fitting pipeline    *)
(* are exact rationals <<n, d>> extended with "nan", "inf" and "-inf", the  *)
(* values numpy's float division produces instead of raising.               *)
(***************************************************************************)
EXTENDS Integers, Sequences, FiniteSets, TLC

VARIABLES op, args, result

vars == <<op, args, result>>

\* ---------------------------------------------------------------- bounds
Scale == 2
MaxVal == 130
MaxUnc == 120
MaxLen == 2
MaxSig == 1100
MaxSigFigs == 3
MaxDim == 2
MaxRank == 2
MaxCells == 4
MaxPts == 3
MaxPar == 2
MaxElem == 4
MaxArr == 3

\* ------------------------------------------------------- decimal helpers
RECURSIVE Pow10(_)
Pow10(n) == IF n <= 0 THEN 1 ELSE 10 * Pow10(n - 1)

Abs(x) == IF x < 0 THEN -x ELSE x

Sign(x) == IF x < 0 THEN -1 ELSE 1

RECURSIVE NumDigits(_)
NumDigits(u) == IF u < 10 THEN 1 ELSE 1 + NumDigits(u \div 10)

\* np.floor(np.log10(u)) for u > 0: the decimal exponent of the leading digit
floor_log10(u) == (NumDigits(u) - 1) - Scale

\* np.floor(u / (10**np.floor(np.log10(u)))): the leading decimal digit of u
leading_digit(u) == u \div Pow10(floor_log10(u) + Scale)

\* np.round(x, decimals): round half to even at the given decimal place;
\* decimals may be negative
np_round(x, decimals) ==
    LET shift == Scale - decimals
        unit  == Pow10(shift)
        q     == Abs(x) \div unit
        r     == Abs(x) % unit
        up    == (2 * r > unit) \/ (2 * r = unit /\ q % 2 = 1)
    IN  IF shift <= 0 THEN x
        ELSE Sign(x) * (IF up THEN q + 1 ELSE q) * unit

\* ------------------------------------------- round_sig_fig_uncertainty
Num(v) == [kind |-> "num", v |-> v]
Arr(a) == [kind |-> "arr", a |-> a]
Other  == [kind |-> "other"]

Return(v)  == [kind |-> "return", value |-> v]
Raise(exc) == [kind |-> "raise", exc |-> exc]

\* round_scalar with the extra figure for a leading 1 forgotten
round_scalar_one_figure(value, uncertainty) ==
    IF uncertainty = 0 THEN <<value, uncertainty>>
    ELSE
        LET uncertainty_out == np_round(uncertainty, -(floor_log10(uncertainty)))
            value_out == np_round(value, -(floor_log10(uncertainty_out)))
        IN  <<value_out, uncertainty_out>>

\* the scalar branch (isinstance(value, float) or isinstance(value, int))
round_scalar(value, uncertainty) ==
    IF uncertainty = 0 THEN <<value, uncertainty>>
    ELSE IF leading_digit(uncertainty) # 1 THEN
        LET uncertainty_out == np_round(uncertainty, -(floor_log10(uncertainty)))
            value_out == np_round(value, -(floor_log10(uncertainty_out)))
        IN  <<value_out, uncertainty_out>>
    ELSE
        LET uncertainty_out == np_round(uncertainty, 1 - floor_log10(uncertainty))
            value_out == np_round(value, 1 - floor_log10(uncertainty_out))
        IN  <<value_out, uncertainty_out>>

\* round_element with the value's place taken from the unrounded uncertainty
round_element_input_place(value_i, uncertainty_i) ==
    IF uncertainty_i = 0 THEN <<value_i, uncertainty_i>>
    ELSE IF leading_digit(uncertainty_i) # 1 THEN
        LET uncertainty_rnd == np_round(uncertainty_i, -(floor_log10(uncertainty_i)))
            value_rnd == np_round(value_i, -(floor_log10(uncertainty_i)))
        IN  <<value_rnd, uncertainty_rnd>>
    ELSE
        LET uncertainty_rnd == np_round(uncertainty_i, 1 - floor_log10(uncertainty_i))
            value_rnd == np_round(value_i, 1 - floor_log10(uncertainty_i))
        IN  <<value_rnd, uncertainty_rnd>>

\* the body of the loop over an array/list: what is appended for position i
round_element(value_i, uncertainty_i) ==
    IF uncertainty_i = 0 THEN <<value_i, uncertainty_i>>
    ELSE IF leading_digit(uncertainty_i) # 1 THEN
        LET uncertainty_rnd == np_round(uncertainty_i, -(floor_log10(uncertainty_i)))
            value_rnd == np_round(value_i, -(floor_log10(uncertainty_rnd)))
        IN  <<value_rnd, uncertainty_rnd>>
    ELSE
        LET uncertainty_rnd == np_round(uncertainty_i, 1 - floor_log10(uncertainty_i))
            value_rnd == np_round(value_i, 1 - floor_log10(uncertainty_rnd))
        IN  <<value_rnd, uncertainty_rnd>>

\* round_loop with the positions of zero uncertainty left out of the output
RECURSIVE round_loop_skip_zero(_, _, _, _, _)
round_loop_skip_zero(value, uncertainty, i, value_out, uncertainty_out) ==
    IF i > Len(value) THEN Return(<<value_out, uncertainty_out>>)
    ELSE IF i > Len(uncertainty) THEN Raise("IndexError")
    ELSE IF uncertainty[i] = 0
    THEN round_loop_skip_zero(value, uncertainty, i + 1, value_out, uncertainty_out)
    ELSE LET e == round_element(value[i], uncertainty[i])
         IN  round_loop_skip_zero(value, uncertainty, i + 1,
                        Append(value_out, e[1]), Append(uncertainty_out, e[2]))

\* for i in range(len(value)): ... ; uncertainty[i] raises IndexError when
\* the uncertainty array is shorter than the value array
RECURSIVE round_loop(_, _, _, _, _)
round_loop(value, uncertainty, i, value_out, uncertainty_out) ==
    IF i > Len(value) THEN Return(<<value_out, uncertainty_out>>)
    ELSE IF i > Len(uncertainty) THEN Raise("IndexError")
    ELSE LET e == round_element(value[i], uncertainty[i])
         IN  round_loop(value, uncertainty, i + 1,
                        Append(value_out, e[1]), Append(uncertainty_out, e[2]))

round_sig_fig_uncertainty(value, uncertainty) ==
    IF value.kind = "arr" THEN round_loop(value.a, uncertainty.a, 1, <<>>, <<>>)
    ELSE IF value.kind = "num" THEN
        LET r == round_scalar(value.v, uncertainty.v)
        IN  Return(<<Num(r[1]), Num(r[2])>>)
    ELSE Return(<<value, uncertainty>>)

\* ------------------------------------------------ float64 arithmetic
\* <<n, d>> with d > 0 is the number n/d in lowest terms; d = 0 marks the
\* values numpy yields where Python would raise
NaN == <<0, 0>>
Inf == <<1, 0>>
NegInf == <<-1, 0>>

RECURSIVE GCD(_, _)
GCD(a, b) == IF b = 0 THEN a ELSE GCD(b, a % b)

Norm(n, d) ==
    LET g == GCD(Abs(n), Abs(d))
    IN  IF d < 0 THEN <<(-n) \div g, (-d) \div g>> ELSE <<n \div g, d \div g>>

Fin(n) == <<n, 1>>

IsFinite(a) == a[2] # 0

fneg(a) == <<-a[1], a[2]>>

fadd(a, b) ==
    IF a = NaN \/ b = NaN THEN NaN
    ELSE IF ~IsFinite(a) /\ ~IsFinite(b) THEN (IF a = b THEN a ELSE NaN)
    ELSE IF ~IsFinite(a) THEN a
    ELSE IF ~IsFinite(b) THEN b
    ELSE Norm(a[1] * b[2] + b[1] * a[2], a[2] * b[2])

fsub(a, b) == fadd(a, fneg(b))

fmul(a, b) ==
    IF a = NaN \/ b = NaN THEN NaN
    ELSE IF ~IsFinite(a) \/ ~IsFinite(b) THEN
        (IF a[1] = 0 \/ b[1] = 0 THEN NaN
         ELSE IF Sign(a[1]) = Sign(b[1]) THEN Inf ELSE NegInf)
    ELSE Norm(a[1] * b[1], a[2] * b[2])

\* numpy division: x/0 is inf, 0/0 is nan, nothing is raised
fdiv(a, b) ==
    IF a = NaN \/ b = NaN THEN NaN
    ELSE IF ~IsFinite(b) THEN (IF IsFinite(a) THEN Fin(0) ELSE NaN)
    ELSE IF b[1] = 0 THEN
        (IF a[1] = 0 THEN NaN ELSE IF a[1] > 0 THEN Inf ELSE NegInf)
    ELSE IF ~IsFinite(a) THEN (IF Sign(a[1]) = Sign(b[1]) THEN Inf ELSE NegInf)
    ELSE Norm(a[1] * b[2], a[2] * b[1])

\* np.sqrt(a), kept as its square: a itself where the root exists, nan for
\* a negative radicand
np_sqrt(a) == IF a = NaN \/ a[1] < 0 THEN NaN ELSE a

RECURSIVE np_sum(_)
np_sum(a) == IF a = <<>> THEN Fin(0) ELSE fadd(Head(a), np_sum(Tail(a)))

Squares(a) == [i \in 1 .. Len(a) |-> fmul(a[i], a[i])]

\* ---------------------------------------------------- residuals, chi2
\* fx is func(p, x), the prediction of the caller's model function
residuals(fx, y, s) == [i \in 1 .. Len(y) |-> fdiv(fsub(Fin(y[i]), Fin(fx[i])), s)]

\* residuals_data with the parentheses of the difference lost
residuals_data_unparenthesised(observed, expected, s) ==
    [i \in 1 .. Len(observed) |-> fsub(Fin(observed[i]), fdiv(Fin(expected[i]), s))]

residuals_data(observed, expected, s) ==
    [i \in 1 .. Len(observed) |-> fdiv(fsub(Fin(observed[i]), Fin(expected[i])), s)]

chi2(observed, expected, s) == np_sum(Squares(residuals_data(observed, expected, s)))

\* ------------------------------------------------------------ fitting
\* np.dot(r.jac.T, r.jac)
dot_T(jac, k) ==
    [i \in 1 .. k |-> [j \in 1 .. k |->
        LET RECURSIVE acc(_)
            acc(m) == IF m = 0 THEN 0 ELSE jac[m][i] * jac[m][j] + acc(m - 1)
        IN  acc(Len(jac))]]

Drop(a, j) == [i \in 1 .. (Len(a) - 1) |-> IF i < j THEN a[i] ELSE a[i + 1]]

Minor(M, i, j) == [r \in 1 .. (Len(M) - 1) |-> Drop(Drop(M, i)[r], j)]

RECURSIVE Det(_)
Det(M) ==
    IF Len(M) = 0 THEN 1
    ELSE LET RECURSIVE expand(_)
             expand(j) ==
                 IF j = 0 THEN 0
                 ELSE (IF j % 2 = 1 THEN 1 ELSE -1) * M[1][j] * Det(Minor(M, 1, j))
                      + expand(j - 1)
         IN  expand(Len(M))

\* np.diag(np.linalg.inv(hessian)) for an invertible hessian
diag_inv(hessian) ==
    [j \in 1 .. Len(hessian) |-> Norm(Det(Minor(hessian, j, j)), Det(hessian))]

\* r is what opt.least_squares returned: r.x, r.jac, r.success; fx is
\* func(r.x, x).  A root is kept as its square, so beta and unc_fit are
\* returned squared.
fitting(r, fx, y, s) ==
    LET p_fit == r.x
        N == Len(y)
        k == Len(p_fit)
        hessian == dot_T(r.jac, k)
    IN  IF Det(hessian) = 0 THEN Raise("LinAlgError")
        ELSE
        LET K_fit == diag_inv(hessian)
            res1 == residuals(fx, y, Fin(1))
            beta == np_sqrt(fdiv(np_sum(Squares(res1)), Fin(N - k)))
            unc_fit == [j \in 1 .. k |-> fmul(np_sqrt(K_fit[j]), beta)]
            chi == fdiv(np_sum([i \in 1 .. N |-> fdiv(fmul(res1[i], res1[i]), beta)]),
                        Fin(N - k))
        IN  Return(<<p_fit, chi, unc_fit>>)

fitting_params_only(r, fx, y, s) == Return(r.x)

\* ------------------------------------------------- find_nearest_index
\* np.searchsorted(array, value, side="left"): the number of elements
\* smaller than value, as a 0-based insertion index
RECURSIVE searchsorted_left(_, _)
searchsorted_left(array, value) ==
    IF array = <<>> \/ Head(array) >= value THEN 0
    ELSE 1 + searchsorted_left(Tail(array), value)

find_nearest_index(value, array) == searchsorted_left(array, value)

\* ------------------------------------------------------ round_sig_fig
\* int(np.format_float_scientific(value, n).split('e')[1]): the exponent
\* shown once the mantissa is cut to n digits after the point, which is one
\* more than that of the leading digit when the mantissa rounds up to 10
format_float_scientific_expo(value, n) ==
    IF value = 0 THEN 0
    ELSE LET a == Abs(value)
             p == NumDigits(a) - (n + 1)
             shown == IF p <= 0 THEN a
                      ELSE LET q == a \div Pow10(p)
                               r == a % Pow10(p)
                               up == (2 * r > Pow10(p)) \/ (2 * r = Pow10(p) /\ q % 2 = 1)
                           IN  (IF up THEN q + 1 ELSE q) * Pow10(p)
         IN  NumDigits(shown) - 1 - Scale

\* the float/int branch
round_sig_fig_scalar(value, n) ==
    LET expo == format_float_scientific_expo(value, n)
    IN  np_round(value, -(expo - n + 1))

\* round_sig_fig_1d without the + 1 that corrects the decimal place
round_sig_fig_1d_uncorrected(value, n) ==
    [i \in 1 .. Len(value) |->
        LET expo == format_float_scientific_expo(value[i], n)
            out_val == np_round(value[i], -(expo - n))
        IN  out_val]

\* the loop over a 1-D array
round_sig_fig_1d(value, n) ==
    [i \in 1 .. Len(value) |->
        LET expo == format_float_scientific_expo(value[i], n)
            out_val == np_round(value[i], -(expo - n + 1))
        IN  out_val]

\* the array/list branch: rank is len(value.shape); a higher rank recurses
\* over the leading axis
RECURSIVE round_sig_fig_array(_, _, _)
round_sig_fig_array(value, rank, n) ==
    IF rank # 1
    THEN [i \in 1 .. Len(value) |-> round_sig_fig_array(value[i], rank - 1, n)]
    ELSE round_sig_fig_1d(value, n)

round_sig_fig(value, n) ==
    IF value.kind = "num" THEN Num(round_sig_fig_scalar(value.v, n))
    ELSE [kind |-> "arr", rank |-> value.rank,
          a |-> round_sig_fig_array(value.a, value.rank, n)]

\* ------------------------------------------------------------ inputs
Values == (-MaxVal) .. MaxVal
Uncertainties == 0 .. MaxUnc
ArrValues == {-15, 0, 126}
ArrUncertainties == {0, 7, 12, 96}

SeqsUpTo(S, n) == UNION {[1 .. m -> S] : m \in 0 .. n}

SigValues == ((-MaxSig) .. MaxSig) \cup {-9996, 9996}
SigArrValues == {-4321, 996, 9996}
RECURSIVE NumCells(_)
NumCells(shape) == IF shape = <<>> THEN 1 ELSE Head(shape) * NumCells(Tail(shape))

\* the shapes of at most MaxCells entries
Shapes ==
    {shape \in UNION {[1 .. r -> 1 .. MaxDim] : r \in 1 .. MaxRank} :
        NumCells(shape) <= MaxCells}

RECURSIVE ArraysOfShape(_)
ArraysOfShape(shape) ==
    IF Len(shape) = 1 THEN [1 .. shape[1] -> SigArrValues]
    ELSE [1 .. shape[1] -> ArraysOfShape(Tail(shape))]

YVals == {0, 1}
FVals == {0, 1}
SVals == {Fin(1), Fin(2), Fin(-3)}
PVals == {1, 2}
JacVals == {0, 1}

\* what opt.least_squares can hand back for k parameters and N points
LeastSquaresResults(N, k) ==
    [x : [1 .. k -> PVals], jac : [1 .. N -> [1 .. k -> JacVals]], success : BOOLEAN]

IsSorted(a) == \A i \in 1 .. (Len(a) - 1) : a[i] <= a[i + 1]
SortedArrays == {a \in UNION {[1 .. m -> 0 .. MaxElem] : m \in 1 .. MaxArr} : IsSorted(a)}

\* ------------------------------------------------------------ actions
Init == op = "idle" /\ args = <<>> /\ result = <<>>

Call_round_sig_fig_uncertainty_scalar ==
    /\ op = "idle"
    /\ \E value \in Values, uncertainty \in Uncertainties :
        /\ op' = "round_sig_fig_uncertainty"
        /\ args' = [value |-> Num(value), uncertainty |-> Num(uncertainty)]
        /\ result' = round_sig_fig_uncertainty(Num(value), Num(uncertainty))

Call_round_sig_fig_uncertainty_array ==
    /\ op = "idle"
    /\ \E value \in SeqsUpTo(ArrValues, MaxLen),
          uncertainty \in SeqsUpTo(ArrUncertainties, MaxLen) :
        /\ op' = "round_sig_fig_uncertainty"
        /\ args' = [value |-> Arr(value), uncertainty |-> Arr(uncertainty)]
        /\ result' = round_sig_fig_uncertainty(Arr(value), Arr(uncertainty))

Call_round_sig_fig_uncertainty_other ==
    /\ op = "idle"
    /\ op' = "round_sig_fig_uncertainty"
    /\ args' = [value |-> Other, uncertainty |-> Other]
    /\ result' = round_sig_fig_uncertainty(Other, Other)

\* the caller takes the result; nothing persists between calls
Done ==
    /\ op # "idle"
    /\ op' = "idle" /\ args' = <<>> /\ result' = <<>>

NextRound ==
    \/ Call_round_sig_fig_uncertainty_scalar
    \/ Call_round_sig_fig_uncertainty_array
    \/ Call_round_sig_fig_uncertainty_other
    \/ Done

SpecRound == Init /\ [][NextRound]_vars

Call_round_sig_fig_scalar ==
    /\ op = "idle"
    /\ \E value \in SigValues, n \in 1 .. MaxSigFigs :
        /\ op' = "round_sig_fig"
        /\ args' = [value |-> Num(value), n |-> n]
        /\ result' = Return(round_sig_fig(Num(value), n))

Call_round_sig_fig_array ==
    /\ op = "idle"
    /\ \E shape \in Shapes, n \in 1 .. MaxSigFigs :
        \E value \in ArraysOfShape(shape) :
            LET v == [kind |-> "arr", rank |-> Len(shape), a |-> value]
            IN  /\ op' = "round_sig_fig"
                /\ args' = [value |-> v, n |-> n]
                /\ result' = Return(round_sig_fig(v, n))

NextSigFig == Call_round_sig_fig_scalar \/ Call_round_sig_fig_array \/ Done

SpecSigFig == Init /\ [][NextSigFig]_vars

Call_residuals ==
    /\ op = "idle"
    /\ \E N \in 1 .. MaxPts, s \in SVals :
        \E fx \in [1 .. N -> FVals \cup {3}], y \in [1 .. N -> YVals \cup {5}] :
            /\ op' = "residuals"
            /\ args' = [fx |-> fx, y |-> y, s |-> s]
            /\ result' = Return(residuals(fx, y, s))

Call_chi2 ==
    /\ op = "idle"
    /\ \E N \in 1 .. MaxPts, s \in SVals :
        \E observed \in [1 .. N -> FVals \cup {3}], expected \in [1 .. N -> YVals \cup {5}] :
            /\ op' = "chi2"
            /\ args' = [observed |-> observed, expected |-> expected, s |-> s]
            /\ result' = Return(chi2(observed, expected, s))

NextChi == Call_residuals \/ Call_chi2 \/ Done

SpecChi == Init /\ [][NextChi]_vars

Call_fitting ==
    /\ op = "idle"
    /\ \E N \in 1 .. MaxPts, k \in 1 .. MaxPar, s \in {Fin(1), Fin(2)} :
        \E r \in LeastSquaresResults(N, k), fx \in [1 .. N -> FVals], y \in [1 .. N -> YVals] :
            /\ op' = "fitting"
            /\ args' = [r |-> r, fx |-> fx, y |-> y, s |-> s]
            /\ result' = fitting(r, fx, y, s)

Call_fitting_params_only ==
    /\ op = "idle"
    /\ \E N \in 1 .. MaxPts, k \in 1 .. MaxPar, s \in {Fin(1), Fin(2)} :
        \E r \in LeastSquaresResults(N, k), fx \in [1 .. N -> FVals], y \in [1 .. N -> YVals] :
            /\ op' = "fitting_params_only"
            /\ args' = [r |-> r, fx |-> fx, y |-> y, s |-> s]
            /\ result' = fitting_params_only(r, fx, y, s)

NextFit == Call_fitting \/ Call_fitting_params_only \/ Done

SpecFit == Init /\ [][NextFit]_vars

Call_find_nearest_index ==
    /\ op = "idle"
    /\ \E array \in SortedArrays, value \in 0 .. (MaxElem + 1) :
        /\ op' = "find_nearest_index"
        /\ args' = [value |-> value, array |-> array]
        /\ result' = Return(find_nearest_index(value, array))

NextNearest == Call_find_nearest_index \/ Done

SpecNearest == Init /\ [][NextNearest]_vars

Next == NextRound \/ NextSigFig \/ NextChi \/ NextFit \/ NextNearest

Spec == Init /\ [][Next]_vars

\* ------------------------------------- properties of the rounding of pairs
IsRoundCall == op = "round_sig_fig_uncertainty"
IsScalarCall == IsRoundCall /\ args.value.kind = "num"
IsArrayCall == IsRoundCall /\ args.value.kind = "arr"
Returned == result.kind = "return"

RECURSIVE FirstDigit(_)
FirstDigit(u) == IF u < 10 THEN u ELSE FirstDigit(u \div 10)

\* the number of significant figures the convention keeps for uncertainty u
SigFigsKept(u) == IF FirstDigit(u) = 1 THEN 2 ELSE 1

\* out is x rounded to a multiple of 10^p fixed-point units (p <= 0: exact)
IsRoundedAtUnit(x, out, p) ==
    IF p <= 0 THEN out = x
    ELSE /\ Abs(out) % Pow10(p) = 0
         /\ 2 * Abs(out - x) <= Pow10(p)

\* out is u > 0 rounded to k significant figures
IsRoundedToSigFigs(u, out, k) == IsRoundedAtUnit(u, out, NumDigits(u) - k)

\* C1: every uncertainty u > 0 comes back rounded to one significant figure
\* when its leading digit is not 1 and to two when it is 1, for a scalar and
\* for every position of an array.
C1_UncertaintySigFigs ==
    (IsRoundCall /\ Returned) =>
        /\ (args.value.kind = "num" /\ args.uncertainty.v > 0) =>
              IsRoundedToSigFigs(args.uncertainty.v, result.value[2].v,
                                 SigFigsKept(args.uncertainty.v))
        /\ args.value.kind = "arr" =>
              \A i \in 1 .. Len(args.value.a) :
                  args.uncertainty.a[i] > 0 =>
                      IsRoundedToSigFigs(args.uncertainty.a[i], result.value[2][i],
                                         SigFigsKept(args.uncertainty.a[i]))

C1_Witness ==
    /\ IsArrayCall /\ Returned
    /\ \E i, j \in 1 .. Len(args.value.a) :
        /\ FirstDigit(args.uncertainty.a[i]) = 1
        /\ FirstDigit(args.uncertainty.a[j]) > 1
        /\ result.value[2][j] # args.uncertainty.a[j]

\* the fixed-point unit exponent at which the uncertainty u > 0 is rounded
UncertaintyUnit(u) == NumDigits(u) - SigFigsKept(u)

\* rounding carried the uncertainty up to the next power of ten
Carried(u, u_out) == NumDigits(u_out) > NumDigits(u)

\* C2 (as claimed): the value is rounded at the very decimal place at which
\* the uncertainty was rounded, carries included.
C2_ValueAtUncertaintyPlace ==
    (IsScalarCall /\ Returned /\ args.uncertainty.v > 0) =>
        IsRoundedAtUnit(args.value.v, result.value[1].v,
                        UncertaintyUnit(args.uncertainty.v))

\* C2 (amended): the value is rounded at the decimal place at which the
\* uncertainty was rounded, except when rounding carried the uncertainty to
\* the next power of ten: then the value is rounded one place coarser.
C2_ValueAtRoundedUncertaintyPlace ==
    (IsRoundCall /\ Returned) =>
        /\ (args.value.kind = "num" /\ args.uncertainty.v > 0) =>
              LET u == args.uncertainty.v
                  p == UncertaintyUnit(u)
              IN  IsRoundedAtUnit(args.value.v, result.value[1].v,
                      IF Carried(u, result.value[2].v) THEN p + 1 ELSE p)
        /\ args.value.kind = "arr" =>
              \A i \in 1 .. Len(args.value.a) :
                  args.uncertainty.a[i] > 0 =>
                      LET u == args.uncertainty.a[i]
                          p == UncertaintyUnit(u)
                      IN  IsRoundedAtUnit(args.value.a[i], result.value[1][i],
                              IF Carried(u, result.value[2][i]) THEN p + 1 ELSE p)

C2_Witness ==
    /\ IsScalarCall /\ Returned /\ args.uncertainty.v > 0
    /\ Carried(args.uncertainty.v, result.value[2].v)
    /\ ~ IsRoundedAtUnit(args.value.v, result.value[1].v,
                         UncertaintyUnit(args.uncertainty.v))

\* C3: a zero uncertainty leaves its value untouched; in an array the other
\* positions are still rounded and output position i belongs to input
\* position i.
C3_ZeroUncertaintyKeepsValue ==
    (IsRoundCall /\ Returned) =>
        /\ (args.value.kind = "num" /\ args.uncertainty.v = 0) =>
              result.value = <<args.value, args.uncertainty>>
        /\ args.value.kind = "arr" =>
              /\ Len(result.value[1]) = Len(args.value.a)
              /\ Len(result.value[2]) = Len(args.value.a)
              /\ \A i \in 1 .. Len(args.value.a) :
                    IF args.uncertainty.a[i] = 0
                    THEN /\ result.value[1][i] = args.value.a[i]
                         /\ result.value[2][i] = 0
                    ELSE /\ IsRoundedToSigFigs(args.uncertainty.a[i],
                                result.value[2][i], SigFigsKept(args.uncertainty.a[i]))
                         /\ 2 * Abs(result.value[1][i] - args.value.a[i])
                                <= Pow10(NumDigits(result.value[2][i]) - 1)

C3_Witness ==
    /\ IsArrayCall /\ Returned
    /\ \E i, j \in 1 .. Len(args.value.a) :
        /\ args.uncertainty.a[i] = 0
        /\ args.value.a[i] % 10 # 0
        /\ result.value[1][i] = args.value.a[i]
        /\ args.uncertainty.a[j] # 0
        /\ result.value[1][j] # args.value.a[j]

\* C4 (as claimed): arrays of different lengths always end in an error.
C4_LengthMismatchRaises ==
    (IsArrayCall /\ Len(args.value.a) # Len(args.uncertainty.a)) =>
        result.kind = "raise"

\* ------------------------------------------ properties of the fitting
IsFitCall == op = "fitting"
NumPoints == Len(args.y)
NumParams == Len(args.r.x)

\* C5 (as claimed): with no more data points than parameters, fitting fails
\* instead of returning a result, also when the solver converged.
C5_NoDegreesOfFreedomRaises ==
    (IsFitCall /\ args.r.success /\ NumPoints <= NumParams) => result.kind = "raise"

\* C6 (as claimed): every converged fit with more points than parameters
\* that returns has a reduced chi-squared of exactly 1, noiseless data
\* (all residuals zero) included.
C6_ReducedChiIsOne ==
    (IsFitCall /\ Returned /\ args.r.success /\ NumPoints > NumParams) =>
        result.value[2] = Fin(1)

\* C7 (as claimed): when the solver did not converge, fitting and
\* fitting_params_only fail instead of returning parameters.
C7_NonConvergenceRaises ==
    (op \in {"fitting", "fitting_params_only"} /\ ~args.r.success) =>
        result.kind = "raise"

\* ------------------------------------------ properties of residuals, chi2
\* C8: the sum of the squared residuals (y - func(p, x)) / s equals
\* chi2(func(p, x), y, s), where the prediction is passed as the observed
\* data and y as the expected data.
C8_ResidualsMatchChi2 ==
    /\ op = "residuals" =>
          np_sum(Squares(result.value)) = chi2(args.fx, args.y, args.s)
    /\ op = "chi2" =>
          result.value = np_sum(Squares(residuals(args.observed, args.expected, args.s)))

C8_Witness ==
    /\ op = "residuals"
    /\ args.s = Fin(-3)
    /\ \E i, j \in 1 .. Len(args.y) :
        /\ args.y[i] > args.fx[i]
        /\ args.y[j] < args.fx[j]
    /\ np_sum(Squares(result.value)) # Fin(0)

\* -------------------------------------------- properties of round_sig_fig
\* out is v rounded to n significant figures
IsRoundedToN(v, out, n) ==
    IF v = 0 THEN out = 0
    ELSE /\ out # 0 /\ Sign(out) = Sign(v)
         /\ IsRoundedToSigFigs(Abs(v), Abs(out), n)

RECURSIVE EveryEntryRounded(_, _, _, _)
EveryEntryRounded(value, out, rank, n) ==
    /\ Len(out) = Len(value)
    /\ \A i \in 1 .. Len(value) :
        IF rank = 1
        THEN /\ IsRoundedToN(value[i], out[i], n)
             /\ Num(out[i]) = round_sig_fig(Num(value[i]), n)
        ELSE EveryEntryRounded(value[i], out[i], rank - 1, n)

\* C9: a scalar comes back rounded to n significant figures, and an array of
\* any rank comes back with the same shape, every entry being the scalar
\* rounding of the entry at the same place, carries to the next power of
\* ten included.
C9_RoundSigFig ==
    op = "round_sig_fig" =>
        IF args.value.kind = "num"
        THEN /\ result.value.kind = "num"
             /\ IsRoundedToN(args.value.v, result.value.v, args.n)
        ELSE /\ result.value.kind = "arr"
             /\ result.value.rank = args.value.rank
             /\ EveryEntryRounded(args.value.a, result.value.a, args.value.rank, args.n)

C9_Witness ==
    /\ op = "round_sig_fig"
    /\ args.value.kind = "arr" /\ args.value.rank = 2 /\ args.n = 2
    /\ \E i \in 1 .. Len(args.value.a) : \E j \in 1 .. Len(args.value.a[i]) :
        /\ args.value.a[i][j] = 9996
        /\ result.value.a[i][j] = 10000
    /\ \E i \in 1 .. Len(args.value.a) : \E j \in 1 .. Len(args.value.a[i]) :
        /\ args.value.a[i][j] = -4321
        /\ result.value.a[i][j] = -4300

\* --------------------------------------- properties of find_nearest_index
\* C10 (as claimed): the index returned is a valid index of the array whose
\* element is nearest to the value, the lower index on a tie.
C10_NearestIndex ==
    op = "find_nearest_index" =>
        LET index == result.value
            array == args.array
            dist(j) == Abs(array[j + 1] - args.value)
        IN  /\ index \in 0 .. (Len(array) - 1)
            /\ \A j \in 0 .. (Len(array) - 1) :
                /\ dist(index) <= dist(j)
                /\ dist(index) = dist(j) => index <= j

====
